---- MODULE Spec2Model ----
(***************************************************************************)
(* julio: `create` makes a registry (a datalad dataset carrying the marker *)
(* file registry-config.yml); `add` checks the marker, parses a junifer    *)
(* YAML, splits the HDF5 store it names into per-feature files under       *)
(* <registry>/features and saves the dataset.                              *)
(*                                                                         *)
(* Python strings the code inspects by suffix or prefix (paths) are        *)
(* sequences of one-character strings; opaque strings are TLA+ strings.    *)
(* Python values whose type the code tests are tagged records.             *)
(***************************************************************************)
EXTENDS Integers, Sequences, FiniteSets, TLC

VARIABLES exists, tree, dirty, commits, failedDecomp,
          pc, call, nCalls, rec, recipe

vars == <<exists, tree, dirty, commits, failedDecomp,
          pc, call, nCalls, rec, recipe>>

\* Number of create/add invocations explored in one behaviour.
MaxCalls == 3

-----------------------------------------------------------------------------
(* Python values *)

PyNone == [t |-> "null"]
PyStr(s) == [t |-> "str", v |-> s]
PyList(l) == [t |-> "list", v |-> l]
PyDict(d) == [t |-> "dict", v |-> d]

Range(s) == {s[i] : i \in DOMAIN s}

\* dict.pop(key) on a dict that has the key
Pop(d, key) == [k \in DOMAIN d \ {key} |-> d[k]]

\* d[key] = val
SetItem(d, key, val) == [k \in DOMAIN d \cup {key} |-> IF k = key THEN val ELSE d[k]]

\* str.endswith
EndsWith(s, suf) ==
    /\ Len(s) >= Len(suf)
    /\ SubSeq(s, Len(s) - Len(suf) + 1, Len(s)) = suf

\* A raised exception / a returned value.
Raise(type, msg, arg) == [ok |-> FALSE, type |-> type, msg |-> msg, arg |-> arg]
Return(val) == [ok |-> TRUE, val |-> val]

-----------------------------------------------------------------------------
(* The file system outside the registries: junifer YAMLs and their stores. *)

ExtHdf5 == <<".", "h", "d", "f", "5">>
ExtSqlite == <<".", "s", "q", "l", "i", "t", "e">>
ExtPy == <<".", "p", "y">>

\* yaml_path.parent of every descriptor below.
YamlDir == <<"/", "d">>

\* A data payload as `data["storage"]["uri"]` sees it: an ordinary junifer
\* payload has no "storage" key; nothing stops a payload from having one.
PlainPayload == [hasUri |-> FALSE, uri |-> <<>>]
UriPayload(p) == [hasUri |-> TRUE, uri |-> p]

PatternMeta ==
    [name |-> "BOLD_mean",
     datagrabber |-> [class |-> "PatternDataGrabber", uri |-> "u", rootdir |-> "r",
                      patterns |-> "p", replacements |-> "s", types |-> "BOLD"],
     marker |-> [class |-> "ParcelAggregation", name |-> "mean", masks |-> PyNone]]

DataladMeta ==
    [name |-> "BOLD_std",
     datagrabber |-> [class |-> "DataladAOMICID1000", uri |-> "u", rootdir |-> "r",
                      patterns |-> "p", replacements |-> "s",
                      confounds_format |-> "fmriprep", partial_pattern_ok |-> "False",
                      datalad_dirty |-> "False", types |-> "BOLD"],
     preprocess |-> [class |-> "fMRIPrepConfoundRemover"],
     marker |-> [class |-> "ParcelAggregation", name |-> "std",
                 masks |-> PyList(<<"GM">>)]]

\* A record whose marker was stored without a masks entry.
NoMasksMeta ==
    [name |-> "VBM",
     datagrabber |-> [class |-> "PatternDataladDataGrabber", uri |-> "u"],
     marker |-> [class |-> "ParcelAggregation", name |-> "vbm"]]

PathAB == YamlDir \o <<"/", "a">> \o ExtHdf5
PathOne == YamlDir \o <<"/", "s">> \o ExtHdf5
PathRef == YamlDir \o <<"/", "r">> \o ExtHdf5
PathBad == YamlDir \o <<"/", "b">> \o ExtHdf5
PathEmpty == YamlDir \o <<"/", "e">> \o ExtHdf5
PathCorrupt == YamlDir \o <<"/", "c">> \o ExtHdf5
PathSqlite == YamlDir \o <<"/", "q">> \o ExtSqlite
PathH5 == YamlDir \o <<"/", "t", ".", "h", "5">>
PathGone == YamlDir \o <<"/", "g">> \o ExtHdf5

\* Path(p).exists()
ExistingPaths ==
    {PathAB, PathOne, PathRef, PathBad, PathEmpty, PathCorrupt, PathSqlite, PathH5}

\* An HDF5 store: `meta` is the ordered metadata mapping (key, record),
\* `payload` the data stored under each key's own title.
Hdf5(meta, payload) == [hdf5 |-> TRUE, meta |-> meta, payload |-> payload]
NotHdf5 == [hdf5 |-> FALSE, meta |-> <<>>, payload |-> <<>>]

FileAt(p) ==
    CASE p = PathAB ->
           Hdf5(<<[k |-> "A", v |-> PatternMeta], [k |-> "B", v |-> DataladMeta]>>,
                [A |-> PlainPayload, B |-> PlainPayload])
      [] p = PathOne ->
           Hdf5(<<[k |-> "C", v |-> DataladMeta]>>, [C |-> PlainPayload])
      [] p = PathRef ->
           Hdf5(<<[k |-> "A", v |-> PatternMeta], [k |-> "B", v |-> DataladMeta]>>,
                [A |-> UriPayload(PathRef), B |-> PlainPayload])
      [] p = PathBad ->
           Hdf5(<<[k |-> "A", v |-> PatternMeta], [k |-> "D", v |-> NoMasksMeta]>>,
                [A |-> UriPayload(PathBad), D |-> PlainPayload])
      [] p = PathEmpty -> Hdf5(<<>>, <<>>)
      [] OTHER -> NotHdf5

\* h5io.read_hdf5(fname, title, slash="ignore")
read_hdf5(fname, title) ==
    IF fname \notin ExistingPaths THEN Raise("OSError", "no such file", "")
    ELSE LET f == FileAt(fname) IN
         IF ~f.hdf5 THEN Raise("OSError", "not an HDF5 file", "")
         ELSE IF title = "meta" THEN Return(f.meta)
         ELSE IF title \in DOMAIN f.payload THEN Return(f.payload[title])
         ELSE Raise("ValueError", "no title in file", title)

-----------------------------------------------------------------------------
(* The junifer YAML files `add` can be given. *)

Opaque == PyDict(<<>>)

Storage(uri) == PyDict([kind |-> PyStr(<<"H">>), uri |-> PyStr(uri)])

\* The four mandatory sections, storage.uri = uri.
Base(uri) ==
    [workdir |-> PyStr(<<"w">>), datagrabber |-> Opaque,
     markers |-> PyList(<<Opaque>>), storage |-> Storage(uri)]

Loaded(contents) == [ok |-> TRUE, contents |-> contents]
SyntaxError == [ok |-> FALSE, contents |-> <<>>]

YamlNames ==
    {"ab.yaml", "one.yaml", "ref.yaml", "bad.yaml", "empty.yaml", "corrupt.yaml",
     "sql.yaml", "h5.yaml", "gone.yaml", "nomarkers.yaml", "bogus.yaml",
     "nouri.yaml", "elnull.yaml", "ellist.yaml", "syntax.yaml", "wdnopath.yaml",
     "withfile.yaml", "withmod.yaml"}

\* yaml.load(yaml_path) for yaml_path = YamlDir / name
YamlLoad(name) ==
    CASE name = "ab.yaml" -> Loaded(Base(<<"a">> \o ExtHdf5))
      [] name = "one.yaml" ->
           Loaded([workdir |-> PyDict([path |-> PyStr(<<"w">>)]),
                   with |-> PyList(<<PyStr(<<"m">> \o ExtPy), PyStr(<<"j">>)>>),
                   datagrabber |-> Opaque, preprocess |-> Opaque,
                   markers |-> PyList(<<Opaque>>), storage |-> Storage(PathOne),
                   queue |-> Opaque])
      [] name = "ref.yaml" -> Loaded(Base(<<"r">> \o ExtHdf5))
      [] name = "bad.yaml" -> Loaded(Base(<<"b">> \o ExtHdf5))
      [] name = "empty.yaml" -> Loaded(Base(<<"e">> \o ExtHdf5))
      [] name = "corrupt.yaml" -> Loaded(Base(<<"c">> \o ExtHdf5))
      [] name = "sql.yaml" -> Loaded(Base(<<"q">> \o ExtSqlite))
      [] name = "h5.yaml" -> Loaded(Base(<<"t", ".", "h", "5">>))
      [] name = "gone.yaml" -> Loaded(Base(<<"g">> \o ExtHdf5))
      [] name = "nomarkers.yaml" -> Loaded(Pop(Base(<<"s">> \o ExtHdf5), "markers"))
      [] name = "bogus.yaml" ->
           Loaded(SetItem(Base(<<"s">> \o ExtHdf5), "bogus", Opaque))
      [] name = "nouri.yaml" ->
           Loaded(SetItem(Base(<<"s">> \o ExtHdf5), "storage",
                          PyDict([kind |-> PyStr(<<"H">>)])))
      [] name = "elnull.yaml" ->
           Loaded(SetItem(Base(<<"s">> \o ExtHdf5), "elements", PyNone))
      [] name = "ellist.yaml" ->
           Loaded(SetItem(Base(<<"s">> \o ExtHdf5), "elements",
                          PyList(<<PyStr(<<"1">>)>>)))
      [] name = "withfile.yaml" ->
           Loaded(SetItem(Base(<<"s">> \o ExtHdf5), "with", PyStr(<<"m">> \o ExtPy)))
      [] name = "withmod.yaml" ->
           Loaded(SetItem(Base(<<"s">> \o ExtHdf5), "with", PyStr(<<"n", "p">>)))
      [] name = "wdnopath.yaml" ->
           Loaded(SetItem(Base(<<"s">> \o ExtHdf5), "workdir", PyDict(<<>>)))
      [] OTHER -> SyntaxError

-----------------------------------------------------------------------------
(* _utils.py: path normalisation and descriptor validation *)

\* Path.is_absolute()
IsAbsolute(path) == Len(path) > 0 /\ path[1] = "/"

\* The modelled paths hold no ".", ".." or symlink, so resolve() changes nothing.
_make_absolute_path(path, base_path) ==
    IF IsAbsolute(path) THEN path ELSE base_path \o <<"/">> \o path

\* list(x) for the `with` values that are not lists already
ListOf(x) ==
    IF x.t = "str" THEN Return([i \in 1..Len(x.v) |-> PyStr(<<x.v[i]>>)])
    ELSE Raise("TypeError", "object is not iterable", "")

AdjustWorkdir(data, base) ==
    IF "workdir" \notin DOMAIN data THEN Return(data)
    ELSE LET w == data["workdir"] IN
         IF w.t = "str"
         THEN Return(SetItem(data, "workdir", PyStr(_make_absolute_path(w.v, base))))
         ELSE IF w.t = "dict" /\ "path" \in DOMAIN w.v
         THEN Return(SetItem(data, "workdir",
                  PyDict(SetItem(w.v, "path",
                                 PyStr(_make_absolute_path(w.v["path"].v, base))))))
         ELSE Raise("KeyError", "key", "path")

AdjustWith(data, base) ==
    IF "with" \notin DOMAIN data THEN Return(data)
    ELSE LET w == data["with"]
             l == IF w.t = "list" THEN Return(w.v) ELSE ListOf(w)
         IN  IF ~l.ok THEN l
             ELSE Return(SetItem(data, "with",
                      PyList([i \in DOMAIN l.val |->
                                 IF EndsWith(l.val[i].v, ExtPy)
                                 THEN PyStr(_make_absolute_path(l.val[i].v, base))
                                 ELSE l.val[i]])))

AdjustStorage(data, base) ==
    LET s == data["storage"].v IN
    Return(SetItem(data, "storage",
               PyDict(SetItem(s, "uri", PyStr(_make_absolute_path(s["uri"].v, base))))))

\* _adjust_paths(data, yaml_path), base = yaml_path.parent
_adjust_paths(data, base) ==
    LET a == AdjustWorkdir(data, base) IN
    IF ~a.ok THEN a
    ELSE LET b == AdjustWith(a.val, base) IN
         IF ~b.ok THEN b ELSE AdjustStorage(b.val, base)

mandatory == <<"workdir", "datagrabber", "markers", "storage">>
optional == <<"with", "preprocess", "queue">>

\* "Remove elements key if empty"
RemoveEmptyElements(contents) ==
    IF "elements" \in DOMAIN contents /\ contents["elements"].t = "null"
    THEN Pop(contents, "elements")
    ELSE contents

\* _parse_yaml(yaml_path) for yaml_path = YamlDir / name
_parse_yaml(name) ==
    LET f == YamlLoad(name) IN
    IF ~f.ok THEN Raise("YAMLError", "cannot parse", name)
    ELSE
    LET contents == f.contents
        missing == {i \in DOMAIN mandatory : mandatory[i] \notin DOMAIN contents}
        unknown == DOMAIN contents \ (Range(mandatory) \cup Range(optional))
    IN  IF missing # {}
        THEN Raise("RuntimeError", "section not defined",
                   mandatory[CHOOSE i \in missing : \A j \in missing : i <= j])
        ELSE IF unknown # {}
        THEN Raise("RuntimeError", "Unknown section", CHOOSE k \in unknown : TRUE)
        ELSE IF "uri" \notin DOMAIN contents["storage"].v
        THEN Raise("RuntimeError", "uri missing from storage section", "")
        ELSE LET adjusted == _adjust_paths(contents, YamlDir) IN
             IF ~adjusted.ok THEN adjusted
             ELSE IF adjusted.val["storage"].v["uri"].v \notin ExistingPaths
             THEN Raise("RuntimeError", "Storage file does not exist", "")
             ELSE Return(RemoveEmptyElements(adjusted.val))

-----------------------------------------------------------------------------
(* _utils.py: the recipe of one feature *)

\* Variant: only the plain pattern grabber keeps its fields.
PatternKindsPlainOnly == {"PatternDataGrabber"}

PatternKinds == {"PatternDataGrabber", "PatternDataladDataGrabber"}

\* The keys popped for every other datagrabber, in the order of the pops.
DroppedFields ==
    <<"uri", "rootdir", "patterns", "replacements", "confounds_format",
      "partial_pattern_ok">>

\* k.startswith("datalad"), over the metadata keys of the model
StartsWithDatalad(k) == k \in {"datalad_dirty", "datalad_commit_id", "datalad_id"}

\* x = d.copy(); v = x.pop("class"); x["kind"] = v
ClassToKind(d) ==
    IF "class" \in DOMAIN d THEN Return(SetItem(Pop(d, "class"), "kind", d["class"]))
    ELSE Raise("KeyError", "key", "class")

SynthDatagrabber(dg) ==
    LET y == ClassToKind(dg) IN
    IF ~y.ok THEN y
    ELSE IF dg["class"] \in PatternKinds THEN y
    ELSE LET absent == {i \in DOMAIN DroppedFields : DroppedFields[i] \notin DOMAIN y.val}
         IN  IF absent # {}
             THEN Raise("KeyError", "key",
                        DroppedFields[CHOOSE i \in absent : \A j \in absent : i <= j])
             ELSE Return([k \in {x \in DOMAIN y.val \ Range(DroppedFields) :
                                    ~StartsWithDatalad(x)} |-> y.val[k]])

SynthMarker(marker_) ==
    LET m == ClassToKind(marker_) IN
    IF ~m.ok THEN m
    ELSE IF "masks" \notin DOMAIN m.val THEN Raise("KeyError", "key", "masks")
    ELSE IF m.val["masks"].t = "null" THEN Return(Pop(m.val, "masks"))
    ELSE m

\* _feature_yaml_from_meta(data, feature): the statements in their order,
\* each able to raise KeyError.
_feature_yaml_from_meta(data, feature) ==
    LET y0 == [workdir |-> ""]
        y1 == IF "with" \in DOMAIN data THEN SetItem(y0, "with", data["with"]) ELSE y0
    IN
    IF "datagrabber" \notin DOMAIN data THEN Raise("KeyError", "key", "datagrabber")
    ELSE
    LET dg == SynthDatagrabber(data["datagrabber"]) IN
    IF ~dg.ok THEN dg
    ELSE
    LET y2 == SetItem(y1, "datagrabber", dg.val)
        pre == IF "preprocess" \in DOMAIN data
               THEN ClassToKind(data["preprocess"]) ELSE Return(<<>>)
    IN
    IF ~pre.ok THEN pre
    ELSE
    LET y3 == IF "preprocess" \in DOMAIN data
              THEN SetItem(y2, "preprocess", pre.val) ELSE y2
    IN
    IF "marker" \notin DOMAIN data THEN Raise("KeyError", "key", "marker")
    ELSE
    LET mk == SynthMarker(data["marker"]) IN
    IF ~mk.ok THEN mk
    ELSE
    LET y4 == SetItem(y3, "markers", <<mk.val>>)
        y5 == SetItem(y4, "storage", [kind |-> "HDF5FeatureStorage", uri |-> ""])
    IN
    IF "name" \notin DOMAIN data THEN Raise("KeyError", "key", "name")
    ELSE Return(SetItem(y5, "queue", [jobname |-> data["name"], kind |-> ""]))

-----------------------------------------------------------------------------
(* Registries (datalad datasets) and the call in progress *)

\* Local directories `create` and `add` are pointed at ("plain" is a dataset
\* that exists and is no registry, "reg" does not exist until it is created),
\* and the temporary directory `add` clones a URL into.
LocalPaths == {"reg", "plain"}
TmpDir == "tmp"
Workspaces == LocalPaths \cup {TmpDir}

\* Registry addresses given as a str (a URL): a remote registry, a remote
\* dataset that is no registry, and a URL that cannot be cloned.
Urls == {"urlReg", "urlPlain", "urlBad"}
Targets == LocalPaths \cup Urls

\* isinstance(registry_path, str)
IsUrl(t) == t \in Urls

MarkerFile == <<"registry-config.yml">>
MetaFile(k) == <<"features/feature-", k, "-meta.yaml">>
RecipeFile(k) == <<"features/feature-", k, ".yml">>
DataFile(k) == <<"features/feature-", k, ".h5">>

\* dl.clone(source=url, path=tmpdir): the files of the clone, or a failure
clone(url) ==
    CASE url = "urlReg" -> Return({MarkerFile})
      [] url = "urlPlain" -> Return({})
      [] OTHER -> Raise("RuntimeError", "Failed to clone dataset", url)

\* Variant: any dataset passes for a registry.
IsAnyDataset(files) == TRUE

\* is_julio_registry(ds), on the working tree of ds
is_julio_registry(files) == MarkerFile \in files

\* f"[julio] add features for {yaml_path.name}"
CommitMessage(name) == "[julio] add features for " \o name

\* Variant: the final else does nothing, like the SQLite branch.
StorageFormatLax(uri) ==
    IF EndsWith(uri, ExtHdf5) THEN "hdf5" ELSE "sqlite"

\* The branch process_features takes on the storage URI.
StorageFormat(uri) ==
    IF EndsWith(uri, ExtHdf5) THEN "hdf5"
    ELSE IF EndsWith(uri, ExtSqlite) THEN "sqlite"
    ELSE "unsupported"

\* Variant: the save sits in a finally clause.
PropagateFinally(r, next) == IF r.ok THEN next ELSE "save"

\* No statement of add or process_features catches an exception: a step that
\* raises ends the call, a step that returns is followed by the next one.
Propagate(r, next) == IF r.ok THEN next ELSE "done"

\* Variant: the save names the data files only.
SaveDataOnly(changes) == {e \in changes : Len(e[1]) = 3 /\ e[1] = DataFile(e[1][2])}

\* ds.save(message=...) names no path: it records every change of the dataset.
SaveScope(changes) == changes

NoError == [ok |-> TRUE, type |-> "", msg |-> "", arg |-> ""]

NoCall ==
    [id |-> 0, op |-> "none", yaml |-> "", target |-> "", ds |-> "", err |-> NoError,
     failedAt |-> "", parsed |-> FALSE, data |-> <<>>, hdata |-> PlainPayload,
     todo |-> <<>>, written |-> {}]

\* The dataset before any call: an existing dataset that is no registry.
Init ==
    /\ exists = [w \in Workspaces |-> w = "plain"]
    /\ tree = [w \in Workspaces |-> {}]
    /\ dirty = [w \in Workspaces |-> {}]
    /\ commits = <<>>
    /\ failedDecomp = {}
    /\ pc = "idle"
    /\ call = NoCall
    /\ nCalls = 0
    /\ rec = <<>>
    /\ recipe = <<>>

Fail(r, at) == [call EXCEPT !.err = r, !.failedAt = at]

\* A file written into the working tree of the call's dataset: it counts as
\* changed, by this call, until a save records it.
WriteFile(f) ==
    /\ tree' = [tree EXCEPT ![call.ds] = @ \cup {f}]
    /\ dirty' = [dirty EXCEPT ![call.ds] = {e \in @ : e[1] # f} \cup {<<f, call.id>>}]

CommitOf(ws, id, msg, covers, ok) ==
    [ws |-> ws, call |-> id, message |-> msg, covers |-> covers, ok |-> ok]

\* create(registry_path)
create(p, saved) ==
    /\ pc = "idle"
    /\ nCalls < MaxCalls
    /\ nCalls' = nCalls + 1
    /\ pc' = "done"
    /\ LET c == [NoCall EXCEPT !.id = nCalls + 1, !.op = "create", !.target = p,
                               !.ds = p]
       IN
       IF exists[p]
       THEN /\ call' = [c EXCEPT !.err = Raise("RuntimeError",
                                               "Failed to create dataset", p),
                                 !.failedAt = "create"]
            /\ UNCHANGED <<exists, tree, dirty, commits>>
       ELSE /\ exists' = [exists EXCEPT ![p] = TRUE]
            /\ tree' = [tree EXCEPT ![p] = {MarkerFile}]
            /\ commits' = Append(commits,
                   CommitOf(p, c.id, "[julio] add registry configuration",
                            {<<MarkerFile, c.id>>}, saved))
            /\ dirty' = [dirty EXCEPT ![p] = IF saved THEN {}
                                             ELSE {<<MarkerFile, c.id>>}]
            /\ call' = IF saved
                       THEN [c EXCEPT !.written = {MarkerFile}]
                       ELSE [c EXCEPT !.written = {MarkerFile},
                                      !.err = Raise("IncompleteResultsError",
                                                    "save failed", p),
                                      !.failedAt = "save"]
    /\ UNCHANGED <<failedDecomp, rec, recipe>>

\* add(yaml_path, registry_path) up to the call of process_features
add(y, t) ==
    /\ pc = "idle"
    /\ nCalls < MaxCalls
    /\ nCalls' = nCalls + 1
    /\ LET c == [NoCall EXCEPT !.id = nCalls + 1, !.op = "add", !.yaml = y,
                               !.target = t, !.ds = IF IsUrl(t) THEN TmpDir ELSE t]
           cloned == IF IsUrl(t) THEN clone(t) ELSE Return(tree[t])
       IN
       IF ~cloned.ok
       THEN /\ call' = [c EXCEPT !.err = cloned, !.failedAt = "clone"]
            /\ pc' = "done"
            /\ UNCHANGED <<exists, tree>>
       ELSE /\ exists' = IF IsUrl(t) THEN [exists EXCEPT ![TmpDir] = TRUE] ELSE exists
            /\ tree' = [tree EXCEPT ![c.ds] = cloned.val]
            /\ LET r == IF is_julio_registry(cloned.val) THEN Return(TRUE)
                        ELSE Raise("RuntimeError", "is not a julio registry", c.ds)
               IN  /\ call' = IF r.ok THEN c
                              ELSE [c EXCEPT !.err = r, !.failedAt = "registry"]
                   /\ pc' = Propagate(r, "parse")
    /\ UNCHANGED <<dirty, commits, failedDecomp, rec, recipe>>

\* process_features: data = _parse_yaml(yaml_path)
process_features_parse ==
    /\ pc = "parse"
    /\ LET r == _parse_yaml(call.yaml) IN
       /\ call' = IF r.ok THEN [call EXCEPT !.parsed = TRUE, !.data = r.val]
                  ELSE [call EXCEPT !.parsed = TRUE, !.err = r, !.failedAt = "parse"]
       /\ pc' = Propagate(r, "dispatch")
    /\ UNCHANGED <<exists, tree, dirty, commits, failedDecomp, nCalls,
                   rec, recipe>>

Uri(data) == data["storage"].v["uri"].v

\* process_features: the if / elif / else on the storage URI
process_features_dispatch ==
    /\ pc = "dispatch"
    /\ LET fmt == StorageFormat(Uri(call.data))
           r == IF fmt = "unsupported"
                THEN Raise("RuntimeError", "Unsupported storage format extension", "")
                ELSE Return(fmt)
       IN  /\ call' = IF r.ok THEN call
                      ELSE [call EXCEPT !.err = r, !.failedAt = "dispatch"]
           /\ pc' = Propagate(r, IF fmt = "hdf5" THEN "open" ELSE "save")
    /\ UNCHANGED <<exists, tree, dirty, commits, failedDecomp, nCalls,
                   rec, recipe>>

\* The head of the loop over metadata.items()
LoopHead(todo) == IF todo = <<>> THEN "save" ELSE "meta"

\* _process_hdf5: read the metadata, make the features directory
_process_hdf5_open ==
    /\ pc = "open"
    /\ LET r == read_hdf5(Uri(call.data), "meta") IN
       /\ call' = IF r.ok
                  THEN [call EXCEPT !.todo = r.val,
                                    !.hdata = UriPayload(Uri(call.data))]
                  ELSE [call EXCEPT !.err = r, !.failedAt = "decompose"]
       /\ failedDecomp' = IF r.ok THEN failedDecomp ELSE failedDecomp \cup {call.id}
       /\ pc' = Propagate(r, IF r.ok THEN LoopHead(r.val) ELSE "")
    /\ UNCHANGED <<exists, tree, dirty, commits, nCalls, rec, recipe>>

\* _process_hdf5: yaml.dump(v, stream=meta_path.open("w"))
_process_hdf5_meta ==
    /\ pc = "meta"
    /\ WriteFile(MetaFile(Head(call.todo).k))
    /\ call' = [call EXCEPT !.written = @ \cup {MetaFile(Head(call.todo).k)}]
    /\ pc' = "recipe"
    /\ UNCHANGED <<exists, commits, failedDecomp, nCalls, rec, recipe>>

\* _process_hdf5: yaml_data = _feature_yaml_from_meta(v, k), then its dump
_process_hdf5_yaml ==
    /\ pc = "recipe"
    /\ LET k == Head(call.todo).k
           r == _feature_yaml_from_meta(Head(call.todo).v, k)
       IN  /\ IF r.ok
              THEN /\ WriteFile(RecipeFile(k))
                   /\ call' = [call EXCEPT !.written = @ \cup {RecipeFile(k)}]
                   /\ UNCHANGED failedDecomp
              ELSE /\ call' = Fail(r, "decompose")
                   /\ failedDecomp' = failedDecomp \cup {call.id}
                   /\ UNCHANGED <<tree, dirty>>
           /\ pc' = Propagate(r, "data")
    /\ UNCHANGED <<exists, commits, nCalls, rec, recipe>>

\* _process_hdf5: data = read_hdf5(fname=data["storage"]["uri"], title=k),
\* which rebinds `data`, then write_hdf5 of it
_process_hdf5_data ==
    /\ pc = "data"
    /\ LET k == Head(call.todo).k
           r == IF call.hdata.hasUri THEN read_hdf5(call.hdata.uri, k)
                ELSE Raise("KeyError", "key", "storage")
       IN  /\ IF r.ok
              THEN /\ WriteFile(DataFile(k))
                   /\ call' = [call EXCEPT !.written = @ \cup {DataFile(k)},
                                           !.hdata = r.val, !.todo = Tail(@)]
                   /\ UNCHANGED failedDecomp
              ELSE /\ call' = Fail(r, "decompose")
                   /\ failedDecomp' = failedDecomp \cup {call.id}
                   /\ UNCHANGED <<tree, dirty>>
           /\ pc' = Propagate(r, IF r.ok THEN LoopHead(Tail(call.todo)) ELSE "")
    /\ UNCHANGED <<exists, commits, nCalls, rec, recipe>>

\* process_features: ds.save(message=..., on_failure="stop")
process_features_save(saved) ==
    /\ pc = "save"
    /\ commits' = Append(commits,
           CommitOf(call.ds, call.id, CommitMessage(call.yaml),
                    SaveScope(dirty[call.ds]), saved))
    /\ dirty' = IF saved THEN [dirty EXCEPT ![call.ds] = @ \ SaveScope(@)] ELSE dirty
    /\ call' = IF saved THEN call
               ELSE Fail(Raise("IncompleteResultsError", "save failed", ""), "save")
    /\ pc' = "done"
    /\ UNCHANGED <<exists, tree, failedDecomp, nCalls, rec, recipe>>

\* The call returns or raises to its caller; the temporary directory of a
\* cloned registry is removed with it.
Finish ==
    /\ pc = "done"
    /\ pc' = "idle"
    /\ IF call.ds = TmpDir /\ exists[TmpDir]
       THEN /\ exists' = [exists EXCEPT ![TmpDir] = FALSE]
            /\ tree' = [tree EXCEPT ![TmpDir] = {}]
            /\ dirty' = [dirty EXCEPT ![TmpDir] = {}]
       ELSE UNCHANGED <<exists, tree, dirty>>
    /\ UNCHANGED <<commits, failedDecomp, call, nCalls, rec, recipe>>

Next ==
    \/ \E p \in LocalPaths, saved \in BOOLEAN : create(p, saved)
    \/ \E y \in YamlNames, t \in Targets : add(y, t)
    \/ process_features_parse
    \/ process_features_dispatch
    \/ _process_hdf5_open
    \/ _process_hdf5_meta
    \/ _process_hdf5_yaml
    \/ _process_hdf5_data
    \/ \E saved \in BOOLEAN : process_features_save(saved)
    \/ Finish

Spec == Init /\ [][Next]_vars

-----------------------------------------------------------------------------
(* _feature_yaml_from_meta on its own, over a family of metadata records *)

ClaimedFields == {"uri", "rootdir", "patterns", "replacements"}

RecordShapes ==
    [cls : {"PatternDataGrabber", "PatternDataladDataGrabber", "DataladAOMICID1000",
            "none"},
     fields : SUBSET ClaimedFields,
     extra : BOOLEAN,
     datalad : BOOLEAN,
     masks : {"null", "list", "absent"},
     mcls : BOOLEAN,
     pre : {"absent", "class", "noclass"},
     with : BOOLEAN]

MkDatagrabber(p) ==
    LET keys == {"types"} \cup p.fields
                \cup (IF p.extra THEN {"confounds_format", "partial_pattern_ok"} ELSE {})
                \cup (IF p.datalad THEN {"datalad_dirty"} ELSE {})
                \cup (IF p.cls # "none" THEN {"class"} ELSE {})
    IN  [k \in keys |-> IF k = "class" THEN p.cls ELSE "v_" \o k]

MkMarker(p) ==
    LET keys == {"name"} \cup (IF p.mcls THEN {"class"} ELSE {})
                \cup (IF p.masks # "absent" THEN {"masks"} ELSE {})
    IN  [k \in keys |-> IF k = "masks"
                        THEN (IF p.masks = "null" THEN PyNone ELSE PyList(<<"GM">>))
                        ELSE IF k = "class" THEN "ParcelAggregation" ELSE "mean"]

MkPreprocess(p) ==
    IF p.pre = "class" THEN [class |-> "fMRIPrepConfoundRemover", detrend |-> "True"]
    ELSE [detrend |-> "True"]

\* One entry of the store's metadata mapping.
MkRecord(p) ==
    LET keys == {"name", "datagrabber", "marker"}
                \cup (IF p.pre # "absent" THEN {"preprocess"} ELSE {})
                \cup (IF p.with THEN {"with"} ELSE {})
    IN  [k \in keys |->
            CASE k = "name" -> "feature"
              [] k = "datagrabber" -> MkDatagrabber(p)
              [] k = "marker" -> MkMarker(p)
              [] k = "preprocess" -> MkPreprocess(p)
              [] OTHER -> <<"mod.py">>]

NotSynthesized == [done |-> FALSE]

SynthInit ==
    /\ exists = [w \in Workspaces |-> w = "plain"]
    /\ tree = [w \in Workspaces |-> {}]
    /\ dirty = [w \in Workspaces |-> {}]
    /\ commits = <<>>
    /\ failedDecomp = {}
    /\ pc = "idle"
    /\ call = NoCall
    /\ nCalls = 0
    /\ \E p \in RecordShapes : rec = MkRecord(p)
    /\ recipe = NotSynthesized

\* yaml_data = _feature_yaml_from_meta(v, k)
Synthesize ==
    /\ ~recipe.done
    /\ recipe' = [done |-> TRUE, r |-> _feature_yaml_from_meta(rec, "k")]
    /\ UNCHANGED <<exists, tree, dirty, commits, failedDecomp, pc, call, nCalls, rec>>

SynthNext == Synthesize

SynthSpec == SynthInit /\ [][SynthNext]_vars

-----------------------------------------------------------------------------
(* Properties *)

CommitsOf(id) == {i \in DOMAIN commits : commits[i].call = id}

Keys(meta) == {meta[i].k : i \in DOMAIN meta}

FeatureFiles(K) == UNION {{MetaFile(k), RecipeFile(k), DataFile(k)} : k \in K}

\* The call is an add whose descriptor was loaded and validated.
Ingesting == call.op = "add" /\ call.parsed /\ call.failedAt # "parse"

\* The call is an add that went into _process_hdf5 on a readable store.
Decomposing ==
    /\ Ingesting
    /\ pc \notin {"dispatch", "open"}
    /\ EndsWith(Uri(call.data), ExtHdf5)
    /\ read_hdf5(Uri(call.data), "meta").ok

StoreMeta == read_hdf5(Uri(call.data), "meta").val

\* Every record of the store has a recipe and every key a payload.
StoreWellFormed ==
    \A i \in DOMAIN StoreMeta :
        /\ _feature_yaml_from_meta(StoreMeta[i].v, StoreMeta[i].k).ok
        /\ read_hdf5(Uri(call.data), StoreMeta[i].k).ok

\* C1: once _process_hdf5 has ended on a well-formed store with key set K, it
\* has not raised and the files the call wrote are exactly feature-k-meta.yaml,
\* feature-k.yml and feature-k.h5 for every k in K (6 files for K = {A, B}).
C1_DecomposeWritesThreeFilesPerKey ==
    (Decomposing /\ StoreWellFormed /\ pc \in {"save", "done", "idle"})
        => /\ call.failedAt # "decompose"
           /\ call.written = FeatureFiles(Keys(StoreMeta))

\* C2: an add that failed in loading/validation, path normalisation, the
\* storage-existence check, the format dispatch or the decomposition has
\* requested no save, at any point of the call.
C2_NoCommitOnceAStepFailed ==
    call.failedAt \in {"parse", "dispatch", "decompose"} => CommitsOf(call.id) = {}

C2_Witness ==
    /\ pc = "idle"
    /\ call.failedAt = "decompose"
    /\ call.written # {}
    /\ CommitsOf(call.id) = {}

\* C3: no successful save, of the failing call or of a later one, covers a
\* file that was last written by a decomposition that failed.
C3_FailedWritesNeverCommitted ==
    \A i \in DOMAIN commits :
        commits[i].ok => \A e \in commits[i].covers : e[2] \notin failedDecomp

\* C4: an add whose decomposition succeeded requests exactly one save, of its
\* own dataset, not before the three files of every key are written, covering
\* every file written, with the message "[julio] add features for <file name>".
C4_OneCommitCoversEveryFile ==
    /\ (call.op = "add" /\ pc \in {"parse", "dispatch", "open", "meta", "recipe",
                                   "data", "save"})
           => CommitsOf(call.id) = {}
    /\ (Decomposing /\ call.failedAt # "decompose" /\ pc \in {"done", "idle"})
           => /\ Cardinality(CommitsOf(call.id)) = 1
              /\ \A i \in CommitsOf(call.id) :
                    /\ commits[i].ws = call.ds
                    /\ commits[i].message = "[julio] add features for " \o call.yaml
                    /\ {<<f, call.id>> : f \in call.written} \subseteq commits[i].covers
                    /\ call.written = FeatureFiles(Keys(StoreMeta))

C4_Witness ==
    /\ Decomposing
    /\ call.failedAt = ""
    /\ pc = "done"
    /\ Cardinality(call.written) = 6
    /\ Cardinality(CommitsOf(call.id)) = 1

\* C5: an add whose validated storage URI ends in .sqlite fails with the
\* unsupported-format error, writes no file and requests no save.
C5_SqliteIsUnsupported ==
    (Ingesting /\ EndsWith(Uri(call.data), ExtSqlite) /\ pc \in {"done", "idle"})
        => /\ ~call.err.ok
           /\ call.err.msg = "Unsupported storage format extension"
           /\ call.written = {}
           /\ CommitsOf(call.id) = {}

\* C6: an add whose validated, existing storage URI ends neither in .hdf5 nor
\* in .sqlite writes no file and requests no save, and ends with the
\* unsupported-format error.
C6_UnrecognizedExtensionFails ==
    (/\ Ingesting
     /\ ~EndsWith(Uri(call.data), <<".", "h", "d", "f", "5">>)
     /\ ~EndsWith(Uri(call.data), <<".", "s", "q", "l", "i", "t", "e">>))
        => /\ call.written = {}
           /\ CommitsOf(call.id) = {}
           /\ pc \in {"dispatch", "done", "idle"}
           /\ pc \in {"done", "idle"}
                 => /\ call.failedAt = "dispatch"
                    /\ call.err.type = "RuntimeError"
                    /\ call.err.msg = "Unsupported storage format extension"

C6_Witness ==
    /\ Ingesting
    /\ pc = "done"
    /\ Uri(call.data) = <<"/", "d", "/", "t", ".", "h", "5">>
    /\ call.failedAt = "dispatch"

\* C7: an add whose dataset (a local path or a clone of a URL) has no
\* registry-config.yml ends with the not-a-registry error with nothing parsed,
\* written or saved; a dataset made by a successful create has the file, and
\* an add on a dataset that has it is not refused.
C7_MarkerIsCheckedFirst ==
    /\ (call.op = "add" /\ pc # "idle" /\ call.failedAt # "clone"
        /\ <<"registry-config.yml">> \notin tree[call.ds])
           => /\ pc = "done"
              /\ call.failedAt = "registry"
              /\ call.err.msg = "is not a julio registry"
              /\ ~call.parsed
              /\ call.written = {}
              /\ CommitsOf(call.id) = {}
    /\ (call.op = "create" /\ call.err.ok)
           => <<"registry-config.yml">> \in tree[call.ds]
    /\ (call.op = "add" /\ pc # "idle" /\ <<"registry-config.yml">> \in tree[call.ds])
           => call.failedAt # "registry"

C7_Witness ==
    /\ call.op = "add"
    /\ call.target = "urlPlain"
    /\ pc = "done"
    /\ call.failedAt = "registry"
    /\ <<"registry-config.yml">> \in tree["reg"]

\* The record lacks nothing but, possibly, the marker's masks.
WellFormedButMasks ==
    /\ "class" \in DOMAIN rec["datagrabber"]
    /\ \/ rec["datagrabber"]["class"] \in {"PatternDataGrabber",
                                           "PatternDataladDataGrabber"}
       \/ ClaimedFields \cup {"confounds_format", "partial_pattern_ok"}
              \subseteq DOMAIN rec["datagrabber"]
    /\ "preprocess" \in DOMAIN rec => "class" \in DOMAIN rec["preprocess"]
    /\ "class" \in DOMAIN rec["marker"]

\* C8: for a record whose marker has masks null or absent, the recipe has
\* exactly one marker and that marker has no masks key; masks that are present
\* and not null are kept unchanged.
C8_NullOrAbsentMasksOmitted ==
    (recipe.done /\ WellFormedButMasks)
        => /\ recipe.r.ok
           /\ Len(recipe.r.val["markers"]) = 1
           /\ IF "masks" \in DOMAIN rec["marker"] /\ rec["marker"]["masks"].t # "null"
              THEN /\ "masks" \in DOMAIN recipe.r.val["markers"][1]
                   /\ recipe.r.val["markers"][1]["masks"] = rec["marker"]["masks"]
              ELSE "masks" \notin DOMAIN recipe.r.val["markers"][1]

\* A recipe was returned and its datagrabber keeps the claimed fields of the
\* record's / has none of them.
Retained ==
    \A f \in ClaimedFields \cap DOMAIN rec["datagrabber"] :
        /\ f \in DOMAIN recipe.r.val["datagrabber"]
        /\ recipe.r.val["datagrabber"][f] = rec["datagrabber"][f]

Dropped == ClaimedFields \cap DOMAIN recipe.r.val["datagrabber"] = {}

\* C9 as stated: the fields are kept for PatternDataGrabber and absent for
\* every other class.
C9_KeptOnlyForPatternDataGrabber ==
    (recipe.done /\ recipe.r.ok)
        => IF rec["datagrabber"]["class"] = "PatternDataGrabber"
           THEN Retained ELSE Dropped

\* C9 amended: the fields are kept for PatternDataGrabber and for
\* PatternDataladDataGrabber, and absent from the recipe of every other class.
C9_KeptForPatternKindsElseDropped ==
    (recipe.done /\ recipe.r.ok)
        => IF rec["datagrabber"]["class"] \in {"PatternDataGrabber",
                                               "PatternDataladDataGrabber"}
           THEN Retained ELSE Dropped

C9_Witness ==
    /\ recipe.done
    /\ recipe.r.ok
    /\ rec["datagrabber"]["class"] = "DataladAOMICID1000"
    /\ ClaimedFields \subseteq DOMAIN rec["datagrabber"]
    /\ Dropped

\* The YAML given to the call has the four mandatory sections, a storage.uri
\* naming an existing file and an elements key that is null.
NullElementsDescriptor ==
    LET f == YamlLoad(call.yaml) IN
    /\ f.ok
    /\ {"workdir", "datagrabber", "markers", "storage"} \subseteq DOMAIN f.contents
    /\ "uri" \in DOMAIN f.contents["storage"].v
    /\ _make_absolute_path(f.contents["storage"].v["uri"].v, YamlDir) \in ExistingPaths
    /\ "elements" \in DOMAIN f.contents
    /\ f.contents["elements"].t = "null"

\* C10: _parse_yaml of such a descriptor returns, and what it returns has no
\* elements key.
C10_NullElementsRemoved ==
    (call.op = "add" /\ call.parsed /\ NullElementsDescriptor)
        => /\ call.failedAt # "parse"
           /\ "elements" \notin DOMAIN call.data


\* The YAML given to the call has a `with` that is a single string.
StringWith ==
    LET f == YamlLoad(call.yaml) IN
    /\ f.ok
    /\ "with" \in DOMAIN f.contents
    /\ f.contents["with"].t = "str"

\* C11: after _adjust_paths, a `with` given as a single string is a list of
\* exactly one entry: the string made absolute against the YAML's directory
\* if it ends in ".py", the string itself otherwise.
C11_StringWithBecomesOneEntry ==
    (Ingesting /\ StringWith)
        => LET w == YamlLoad(call.yaml).contents["with"].v
               out == call.data["with"]
           IN  /\ out.t = "list"
               /\ Len(out.v) = 1
               /\ out.v[1].t = "str"
               /\ out.v[1].v = IF EndsWith(w, <<".", "p", "y">>)
                               THEN (IF w[1] = "/" THEN w ELSE <<"/", "d", "/">> \o w)
                               ELSE w

====
